---- MODULE Spec2Model ----
(***************************************************************************)
(* A model of src-tauri/src/lib.rs of apk-disguise-pro: the device         *)
(* listing parser (get_devices), the trusted prefix heuristic              *)
(* (scan_trusted_prefixes) and the APK processing pipeline                 *)
(* (process_apk_full) with the file system and the external tools it       *)
(* drives.                                                                 *)
(*                                                                         *)
(* Text is a sequence of symbols.  Paths and file names are sequences of   *)
(* one-character strings; command output is a sequence of lines, a line a  *)
(* sequence of atoms (a word, a separator, a blank), so that prefix tests, *)
(* splitting and substring search act as they do on the bytes.             *)
(***************************************************************************)
EXTENDS Integers, Sequences, FiniteSets, TLC

VARIABLES
    adb_stdout,   \* get_devices: stdout of `adb devices -l`, as lines
    devices,      \* get_devices: the value returned
    pm_stdout,    \* scan_trusted_prefixes: stdout of `pm list packages`, as lines
    trusted,      \* scan_trusted_prefixes: the value returned
    pc,           \* process_apk_full: position of each invocation
    args,         \* process_apk_full: the parameters of each invocation
    fs,           \* the paths that exist on disk
    manifest,     \* content of AndroidManifest.xml in each working directory
    procs,        \* the external processes that are running
    status,       \* what the last external process of each invocation reported
    result,       \* the value each invocation returned
    obs,          \* how the external tools and the disk behaved for each invocation
    log,          \* history: the stages each invocation started and what happened
    shared,       \* history: paths an invocation touched while the other was in flight
    retFs         \* history: the disk as it was when each invocation returned

devVars == <<adb_stdout, devices>>
scanVars == <<pm_stdout, trusted>>
pipeVars == <<pc, args, fs, manifest, procs, status, result, obs, log, shared, retFs>>
vars == <<adb_stdout, devices, pm_stdout, trusted, pc, args, fs, manifest, procs,
          status, result, obs, log, shared, retFs>>

\* the value of a call that has not returned
NoValue == [kind |-> "NotRun", value |-> <<>>]

(***************************************************************************)
(* Text helpers                                                            *)
(***************************************************************************)
\* str::starts_with / the test of str::strip_prefix
StartsWith(s, pre) ==
    /\ Len(pre) <= Len(s)
    /\ SubSeq(s, 1, Len(pre)) = pre

\* str::strip_prefix, for a string known to start with pre
StripPrefix(s, pre) == SubSeq(s, Len(pre) + 1, Len(s))

\* str::split(sep): the pieces between the occurrences of the symbol sep
RECURSIVE SplitOn(_, _)
SplitOn(s, sep) ==
    IF \A i \in 1..Len(s) : s[i] # sep
    THEN <<s>>
    ELSE LET k == CHOOSE i \in 1..Len(s) :
                      /\ s[i] = sep
                      /\ \A j \in 1..(i - 1) : s[j] # sep
         IN  <<SubSeq(s, 1, k - 1)>> \o SplitOn(SubSeq(s, k + 1, Len(s)), sep)

\* the sequences over S of length 0..n
SeqsUpTo(S, n) == UNION {[1..k -> S] : k \in 0..n}

\* every arrangement of the elements of a finite set as a sequence
Orders(S) ==
    {f \in [1..Cardinality(S) -> S] : \A i, j \in 1..Cardinality(S) : i # j => f[i] # f[j]}

\* Vec::insert(i, x), zero-based index
InsertAt(v, i, x) == SubSeq(v, 1, i) \o <<x>> \o SubSeq(v, i + 1, Len(v))

(***************************************************************************)
(* get_devices                                                             *)
(***************************************************************************)
MaxDevLines == 3

Whitespace == {" ", "\t"}

\* the first line adb prints
Header == <<"List", " ", "of", " ", "device", "s", " ", "attached">>

\* the lines that may follow it
DevLinePool ==
    { <<"emu1", " ", " ", "device", " ", "usb:1">>,
      <<"\t", "emu2", "\t", "device">>,
      <<"emu3", " ", "offline">>,
      <<"ser4", " ", "unauthorized", " ", "transport_id:1">>,
      <<"my", "device", "01", " ", "offline">>,
      <<" ">>,
      <<>> }

\* str::trim().is_empty()
TrimIsEmpty(line) == \A i \in 1..Len(line) : line[i] \in Whitespace

\* str::contains("device"): the word occurs anywhere in the line
ContainsDevice(line) == \E i \in 1..Len(line) : line[i] = "device"

\* str::split_whitespace: the maximal runs of non-blank symbols
RECURSIVE SplitWhitespace(_)
SplitWhitespace(line) ==
    IF line = <<>> THEN <<>>
    ELSE IF Head(line) \in Whitespace THEN SplitWhitespace(Tail(line))
    ELSE LET n == IF \E i \in 1..Len(line) : line[i] \in Whitespace
                  THEN (CHOOSE i \in 1..Len(line) :
                            /\ line[i] \in Whitespace
                            /\ \A j \in 1..(i - 1) : line[j] \notin Whitespace) - 1
                  ELSE Len(line)
         IN  <<SubSeq(line, 1, n)>> \o SplitWhitespace(SubSeq(line, n + 1, Len(line)))

\* the closure of .filter(..) at line 51
KeepDeviceLine(line) == ~TrimIsEmpty(line) /\ ContainsDevice(line)

\* the closure of .map(..) at lines 52-55
DeviceId(line) ==
    LET parts == SplitWhitespace(line)
    IN  IF parts # <<>> THEN parts[1] ELSE line

\* .lines().skip(1).filter(..).map(..).collect()
RECURSIVE FilterMapLines(_)
FilterMapLines(lines) ==
    IF lines = <<>> THEN <<>>
    ELSE (IF KeepDeviceLine(Head(lines)) THEN <<DeviceId(Head(lines))>> ELSE <<>>)
         \o FilterMapLines(Tail(lines))

ParseDevices(stdout) ==
    IF stdout = <<>> THEN <<>> ELSE FilterMapLines(Tail(stdout))

\* get_devices: Err when adb cannot be launched, else the parsed list
GetDevices ==
    /\ devices = NoValue
    /\ \E launched \in BOOLEAN :
          devices' = IF launched
                     THEN [kind |-> "Ok", value |-> ParseDevices(adb_stdout)]
                     ELSE [kind |-> "Err", value |-> <<>>]
    /\ UNCHANGED <<adb_stdout, scanVars, pipeVars>>

(***************************************************************************)
(* scan_trusted_prefixes                                                   *)
(***************************************************************************)
MaxPkgLines == 5

PkgLinePool ==
    { <<"package:", "com", ".", "tencent", ".", "mm">>,
      <<"package:", "org", ".", "x", ".", "a">>,
      <<"package:", "com", ".", "android", ".", "settings">>,
      <<"package:", "com", ".", "android", "x", ".", "core">>,
      <<"package:", "solo">>,
      <<"com", ".", "tencent", ".", "mm">> }

\* system_prefixes, line 82
system_prefixes ==
    { <<"com", ".", "android">>, <<"com", ".", "google">>,
      <<"android", ".", "hardware">>, <<"vendor", ".", "mediatek">> }

MinCount == 2
ChinapostCount == 999
NlscanCount == 100

\* the loop at lines 72-80: one line's contribution to prefix_map
TallyLine(map, line) ==
    IF ~StartsWith(line, <<"package:">>) THEN map
    ELSE LET parts == SplitOn(StripPrefix(line, <<"package:">>), ".")
         IN  IF Len(parts) >= 2
             THEN LET prefix == parts[1] \o <<".">> \o parts[2]
                      old == IF prefix \in DOMAIN map THEN map[prefix] ELSE 0
                  IN  [p \in DOMAIN map \cup {prefix} |->
                          IF p = prefix THEN old + 1 ELSE map[p]]
             ELSE map

RECURSIVE Tally(_, _)
Tally(map, lines) ==
    IF lines = <<>> THEN map ELSE Tally(TallyLine(map, Head(lines)), Tail(lines))

EmptyMap == [p \in {} |-> 0]

\* a bug: a prefix seen once is kept
KeepPrefixOnce(prefix, count) ==
    /\ count >= 1
    /\ ~\E sys \in system_prefixes : StartsWith(prefix, sys)

\* the closure of .filter(..) at line 85
KeepPrefix(prefix, count) ==
    /\ count >= MinCount
    /\ ~\E sys \in system_prefixes : StartsWith(prefix, sys)

RECURSIVE FilterEntries(_, _)
FilterEntries(map, order) ==
    IF order = <<>> THEN <<>>
    ELSE (IF KeepPrefix(Head(order), map[Head(order)])
          THEN <<[prefix |-> Head(order), count |-> map[Head(order)],
                  source |-> "device_scan"]>>
          ELSE <<>>)
         \o FilterEntries(map, Tail(order))

\* sort_by(|a, b| b.count.cmp(&a.count)): true when a may stay before b
CountOrder(a, b) == a.count >= b.count

\* slice::sort_by is a stable sort: insertion after the last entry not below x
RECURSIVE SortInsert(_, _)
SortInsert(sorted, x) ==
    IF sorted = <<>> THEN <<x>>
    ELSE IF CountOrder(Head(sorted), x)
         THEN <<Head(sorted)>> \o SortInsert(Tail(sorted), x)
         ELSE <<x>> \o sorted

RECURSIVE SortByCount(_)
SortByCount(v) ==
    IF v = <<>> THEN <<>>
    ELSE SortInsert(SortByCount(SubSeq(v, 1, Len(v) - 1)), v[Len(v)])

Recommended1 ==
    [prefix |-> <<"cn", ".", "chinapost">>, count |-> ChinapostCount, source |-> "recommended"]
Recommended2 ==
    [prefix |-> <<"com", ".", "nlscan">>, count |-> NlscanCount, source |-> "recommended"]

\* lines 90-91: the two curated entries go to indexes 0 and 1
InsertRecommended(v) == InsertAt(InsertAt(v, 0, Recommended1), 1, Recommended2)

\* lines 69-93 for one iteration order of the HashMap
TrustedFor(stdout, order) ==
    InsertRecommended(SortByCount(FilterEntries(Tally(EmptyMap, stdout), order)))

\* scan_trusted_prefixes: Err when adb cannot be launched; HashMap::into_iter
\* yields the prefixes in an unspecified order
ScanTrustedPrefixes ==
    /\ trusted = NoValue
    /\ \E launched \in BOOLEAN :
          IF launched
          THEN \E order \in Orders(DOMAIN Tally(EmptyMap, pm_stdout)) :
                  trusted' = [kind |-> "Ok", value |-> TrustedFor(pm_stdout, order)]
          ELSE trusted' = [kind |-> "Err", value |-> <<>>]
    /\ UNCHANGED <<pm_stdout, devVars, pipeVars>>

(***************************************************************************)
(* process_apk_full: paths and the new package identity                    *)
(***************************************************************************)
\* the two invocations of the pipeline that the properties relate
Runs == {1, 2}
Other(r) == CHOOSE q \in Runs : q # r

UpperCase == <<"A", "B", "C", "D", "E", "F", "G", "H", "I", "J", "K", "L", "M",
               "N", "O", "P", "Q", "R", "S", "T", "U", "V", "W", "X", "Y", "Z">>
LowerCase == <<"a", "b", "c", "d", "e", "f", "g", "h", "i", "j", "k", "l", "m",
               "n", "o", "p", "q", "r", "s", "t", "u", "v", "w", "x", "y", "z">>
Digits == {"0", "1", "2", "3", "4", "5", "6", "7", "8", "9"}

\* char::is_alphanumeric on the characters used
IsAlphanumeric(c) ==
    \/ c \in Digits
    \/ \E i \in 1..26 : c = UpperCase[i] \/ c = LowerCase[i]

\* str::to_lowercase, one character
ToLower(c) ==
    IF \E i \in 1..26 : c = UpperCase[i]
    THEN LowerCase[CHOOSE i \in 1..26 : c = UpperCase[i]]
    ELSE c

\* A path is a sequence of atoms: the separators "/" and "." and the words
\* between them.  The characters of the words that occur in file names:
Chars(atom) ==
    CASE atom = "MyGame" -> <<"M", "y", "G", "a", "m", "e">>
      [] atom = "_rebuilt" -> <<"_", "r", "e", "b", "u", "i", "l", "t">>
      [] atom = "apk" -> <<"a", "p", "k">>
      [] OTHER -> <<atom>>

RECURSIVE Spell(_)
Spell(s) == IF s = <<>> THEN <<>> ELSE Chars(Head(s)) \o Spell(Tail(s))

\* index of the last occurrence of c in s, 0 when there is none
LastIndexOf(s, c) ==
    IF \E i \in 1..Len(s) : s[i] = c
    THEN CHOOSE i \in 1..Len(s) : s[i] = c /\ \A j \in (i + 1)..Len(s) : s[j] # c
    ELSE 0

\* Path::file_name, as text
FileName(path) == SubSeq(path, LastIndexOf(path, "/") + 1, Len(path))

\* path.file_stem().and_then(|s| s.to_str()).unwrap_or("apk"), line 190
FileStem(path) ==
    LET name == FileName(path)
        dot == LastIndexOf(name, ".")
    IN  IF name = <<>> THEN <<"apk">>
        ELSE IF dot <= 1 THEN name
        ELSE SubSeq(name, 1, dot - 1)

\* path.parent().unwrap_or(Path::new(".")), line 191
ParentDir(path) ==
    LET slash == LastIndexOf(path, "/")
    IN  IF slash = 0 THEN <<>>
        ELSE IF slash = 1 THEN <<"/">>
        ELSE SubSeq(path, 1, slash - 1)

\* Path::join of a directory and a relative file name
Join(dir, name) ==
    IF dir = <<>> THEN name
    ELSE IF dir[Len(dir)] = "/" THEN dir \o name
    ELSE dir \o <<"/">> \o name

\* std::env::temp_dir()
temp_dir == <<"/", "tmp">>

\* lines 192-195
WorkDirOf(apk_path) == Join(temp_dir, <<"apk_disguise_">> \o FileStem(apk_path))
RebuiltOf(apk_path) == Join(ParentDir(apk_path), FileStem(apk_path) \o <<"_rebuilt", ".", "apk">>)
AlignedOf(apk_path) == Join(ParentDir(apk_path), FileStem(apk_path) \o <<"_aligned", ".", "apk">>)
FinalOf(apk_path) == Join(ParentDir(apk_path), FileStem(apk_path) \o <<"_fixed", ".", "apk">>)

work_dir(r) == WorkDirOf(args[r].apk_path)
rebuilt_apk(r) == RebuiltOf(args[r].apk_path)
aligned_apk(r) == AlignedOf(args[r].apk_path)
final_apk(r) == FinalOf(args[r].apk_path)

\* the file system footprint of one invocation
Artifacts(r) == {work_dir(r), rebuilt_apk(r), aligned_apk(r), final_apk(r)}

MaxSuffixLen == 12

\* file_stem.to_lowercase().chars().filter(|c| c.is_alphanumeric()).collect(), line 225
RECURSIVE Clean(_)
Clean(s) ==
    IF s = <<>> THEN <<>>
    ELSE (IF IsAlphanumeric(ToLower(Head(s))) THEN <<ToLower(Head(s))>> ELSE <<>>)
         \o Clean(Tail(s))

\* lines 222-228; an Option is a sequence of no or one value
Suffix(custom_suffix, file_stem) ==
    IF custom_suffix # <<>> /\ custom_suffix[1] # <<>>
    THEN custom_suffix[1]
    ELSE LET clean == Clean(Spell(file_stem))
         IN  IF Len(clean) > MaxSuffixLen THEN SubSeq(clean, 1, MaxSuffixLen) ELSE clean

\* line 229
NewPackage(new_prefix, custom_suffix, file_stem) ==
    new_prefix \o <<".">> \o Suffix(custom_suffix, file_stem)

new_package(r) ==
    NewPackage(args[r].new_prefix, args[r].custom_suffix, FileStem(args[r].apk_path))

(***************************************************************************)
(* The source files, their manifests, and the manifest patch               *)
(***************************************************************************)
ApkGameA == <<"/", "a", "/", "MyGame", ".", "apk">>
ApkGameB == <<"/", "b", "/", "MyGame", ".", "apk">>
ApkRebuilt == <<"/", "a", "/", "MyGame", "_rebuilt", ".", "apk">>
Apks == {ApkGameA, ApkGameB, ApkRebuilt}

WorkDirs == {WorkDirOf(a) : a \in Apks}

\* AndroidManifest.xml as far as the patch reads it: the package attribute (an
\* Option), whether a <uses-sdk element and an <application element occur
NoFile == [exists |-> FALSE, package |-> <<>>, uses_sdk |-> FALSE, application |-> FALSE]

OrigPackage == <<"org", ".", "app">>

\* what the decompiler extracts from each source file
ApkManifest(apk_path) ==
    [exists |-> TRUE,
     package |-> IF apk_path = ApkRebuilt THEN <<>> ELSE <<OrigPackage>>,
     uses_sdk |-> apk_path = ApkGameB,
     application |-> apk_path # ApkRebuilt]

\* lines 231-238: Regex::replace rewrites the first match and leaves a text without
\* a match as it is; <uses-sdk is inserted before <application when it is missing
PatchManifest(content, pkg) ==
    [exists |-> TRUE,
     package |-> IF content.package # <<>> THEN <<pkg>> ELSE <<>>,
     uses_sdk |-> content.uses_sdk \/ content.application,
     application |-> content.application]

(***************************************************************************)
(* process_apk_full: the external tools and the disk                       *)
(***************************************************************************)
ToolStages == {"decompile", "rebuild", "zipalign", "sign", "install"}
EnvKeys == ToolStages \cup {"read", "write"}
Unset == "unset"

\* What a tool invocation can do: not start at all, run and report failure
\* (leaving its output behind or not), run and report success; adb install
\* exits with a status and prints the "Success" marker or not, independently.
Outcomes(key) ==
    CASE key = "install" -> {"launch_err", "fail", "fail_marker", "ok_nomarker", "ok"}
      [] key \in {"read", "write"} -> {"io_err", "ok"}
      [] OTHER -> {"launch_err", "fail", "fail_partial", "ok"}

\* history: invocation r saw behaviour o of the tool or disk operation key
Observe(r, key, o) == obs' = [obs EXCEPT ![r][key] = o]

InFlight(q) == pc[q] \notin {"start", "done"}

\* history: r touched paths; a collision needs the other invocation in flight
Touch(r, paths) ==
    shared' = IF InFlight(Other(r)) THEN [shared EXCEPT ![r] = @ \cup paths] ELSE shared

Event(r, stage, ev) == log' = [log EXCEPT ![r] = Append(@, [stage |-> stage, ev |-> ev])]

\* the file a tool reads and the file or directory it writes
ToolInput(r, stage) ==
    CASE stage = "decompile" -> args[r].apk_path
      [] stage = "rebuild" -> work_dir(r)
      [] stage = "zipalign" -> rebuilt_apk(r)
      [] stage = "sign" -> aligned_apk(r)
      [] stage = "install" -> final_apk(r)

ToolOutput(r, stage) ==
    CASE stage = "decompile" -> {work_dir(r)}
      [] stage = "rebuild" -> {rebuilt_apk(r)}
      [] stage = "zipalign" -> {aligned_apk(r)}
      [] stage = "sign" -> {final_apk(r)}
      [] stage = "install" -> {}

\* whether the tool replaces an output that is already there: apktool d and
\* zipalign are given -f (lines 201, 261); apktool b and apksigner always do
Overwrites(stage) == stage \in {"decompile", "rebuild", "zipalign", "sign"}

\* a tool whose input is missing, or whose output is in the way, cannot succeed
Effective(p) ==
    IF /\ ToolInput(p.run, p.stage) \in fs
       /\ Overwrites(p.stage) \/ ToolOutput(p.run, p.stage) \cap fs = {}
    THEN p.outcome
    ELSE "fail"

\* the exit of a running external process: it reports an exit status and its
\* output, and leaves its artifact on disk (apktool d writes the manifest it
\* extracted; -f lets every tool overwrite what is there)
ToolExit(p) ==
    LET r == p.run
        stage == p.stage
        o == Effective(p)
        wrote == IF o \in {"ok", "fail_partial"} THEN ToolOutput(r, stage) ELSE {}
    IN  /\ p \in procs
        /\ procs' = procs \ {p}
        /\ status' = [status EXCEPT ![r] =
                         [success |-> o \in {"ok", "ok_nomarker"},
                          marker |-> o \in {"ok", "fail_marker"}]]
        /\ fs' = fs \cup wrote
        /\ manifest' = IF stage = "decompile" /\ wrote # {}
                       THEN [manifest EXCEPT ![work_dir(r)] =
                                IF o = "ok" THEN ApkManifest(args[r].apk_path) ELSE NoFile]
                       ELSE manifest
        /\ Event(r, stage, IF o \in {"ok", "ok_nomarker"} THEN "exit_ok" ELSE "exit_fail")
        /\ Touch(r, {ToolInput(r, stage)} \cup wrote)
        /\ UNCHANGED <<pc, args, result, obs, retFs, devVars, scanVars>>

(***************************************************************************)
(* process_apk_full: results                                               *)
(***************************************************************************)
NoResult ==
    [kind |-> "NotRun", success |-> FALSE, step |-> <<>>, output_path |-> <<>>,
     message |-> "", pkg |-> <<>>]

\* a bug: a launch or I/O error is reported as a failed result
ErrAsFailure(text) ==
    [kind |-> "Ok", success |-> FALSE, step |-> <<text>>, output_path |-> <<>>,
     message |-> text, pkg |-> <<>>]

\* Err(String): the `?` of a .map_err(..) at lines 203, 219, 240, 246, 263, 289
ErrResult(text) ==
    [kind |-> "Err", success |-> FALSE, step |-> <<>>, output_path |-> <<>>,
     message |-> text, pkg |-> <<>>]

\* Ok(ProcessResult { success: false, .. })
FailResult(step, output_path, text) ==
    [kind |-> "Ok", success |-> FALSE, step |-> <<step>>, output_path |-> output_path,
     message |-> text, pkg |-> <<>>]

\* Ok(ProcessResult { success: true, .. }); the message names the new package
OkResult(step, output_path, text, pkg) ==
    [kind |-> "Ok", success |-> TRUE, step |-> <<step>>, output_path |-> <<output_path>>,
     message |-> text, pkg |-> <<pkg>>]

\* the function returns res; disk is the file system at that moment
Return(r, res, disk) ==
    /\ result' = [result EXCEPT ![r] = res]
    /\ pc' = [pc EXCEPT ![r] = "done"]
    /\ retFs' = [retFs EXCEPT ![r] = disk]

Goto(r, next) ==
    /\ pc' = [pc EXCEPT ![r] = next]
    /\ UNCHANGED <<result, retFs>>

\* a bug: the process is started and not waited for
OutputNotAwaited(r) == TRUE

\* Command::output() returns when the process it started has exited
OutputReturned(r) == \A p \in procs : p.run # r

\* Command::new(..).output(), first half: the process is started, or the launch
\* fails and `?` returns the error
Spawn(r, stage) ==
    /\ pc[r] = stage
    /\ \E o \in Outcomes(stage) :
          /\ Observe(r, stage, o)
          /\ IF o = "launch_err"
             THEN /\ Return(r, ErrResult(stage), fs)
                  /\ log' = [log EXCEPT ![r] = @ \o <<[stage |-> stage, ev |-> "start"],
                                                      [stage |-> stage, ev |-> "launch_err"]>>]
                  /\ UNCHANGED procs
             ELSE /\ Goto(r, stage \o "_wait")
                  /\ Event(r, stage, "start")
                  /\ procs' = procs \cup {[run |-> r, stage |-> stage, outcome |-> o]}
    /\ UNCHANGED <<args, fs, manifest, status, shared, devVars, scanVars>>

\* Command::output(), second half, and the `if !x.status.success()` after it
Check(r, stage, next, output_path) ==
    /\ pc[r] = stage \o "_wait"
    /\ OutputReturned(r)
    /\ IF ~status[r].success
       THEN Return(r, FailResult(stage, output_path, stage), fs)
       ELSE Goto(r, next)
    /\ UNCHANGED <<args, fs, manifest, procs, status, obs, log, shared, devVars, scanVars>>

(***************************************************************************)
(* process_apk_full: the steps                                             *)
(***************************************************************************)
\* a bug: the working directory of an earlier run is left in place
BeginKeepsWorkDir(r) ==
    /\ pc[r] = "start"
    /\ Goto(r, "decompile")
    /\ UNCHANGED <<args, fs, manifest, procs, status, obs, log, shared, devVars, scanVars>>

\* lines 189-197: the paths are computed and the working directory is removed
Begin(r) ==
    /\ pc[r] = "start"
    /\ fs' = fs \ {work_dir(r)}
    /\ manifest' = [manifest EXCEPT ![work_dir(r)] = NoFile]
    /\ Goto(r, "decompile")
    /\ Touch(r, {work_dir(r)})
    /\ UNCHANGED <<args, procs, status, obs, log, devVars, scanVars>>

\* lines 200-203 and 205-214
Decompile(r) == Spawn(r, "decompile")
DecompileCheck(r) == Check(r, "decompile", "patch", <<>>)

\* lines 217-240: the manifest is read, rewritten in memory and written back
PatchStep(r) ==
    /\ pc[r] = "patch"
    /\ \E rd \in Outcomes("read"), wr \in Outcomes("write") :
          LET content == manifest[work_dir(r)]
              readOk == rd = "ok" /\ content.exists
              writeOk == wr = "ok" /\ work_dir(r) \in fs
              started == [stage |-> "patch", ev |-> "start"]
              missed == IF content.package = <<>>
                        THEN <<[stage |-> "patch", ev |-> "no_pattern"]>> ELSE <<>>
          IN  /\ readOk \/ wr = "ok"
              /\ obs' = [obs EXCEPT ![r]["read"] = rd,
                                    ![r]["write"] = IF readOk THEN wr ELSE @]
              /\ IF ~readOk
                 THEN /\ Return(r, ErrResult("read"), fs)
                      /\ log' = [log EXCEPT ![r] =
                                    @ \o <<started, [stage |-> "patch", ev |-> "io_err"]>>]
                      /\ UNCHANGED manifest
                 ELSE IF ~writeOk
                 THEN /\ Return(r, ErrResult("write"), fs)
                      /\ log' = [log EXCEPT ![r] =
                                    @ \o <<started>> \o missed
                                      \o <<[stage |-> "patch", ev |-> "io_err"]>>]
                      /\ UNCHANGED manifest
                 ELSE /\ Goto(r, "rebuild")
                      /\ log' = [log EXCEPT ![r] = @ \o <<started>> \o missed]
                      /\ manifest' = [manifest EXCEPT ![work_dir(r)] =
                                         PatchManifest(content, new_package(r))]
    /\ Touch(r, {work_dir(r)})
    /\ UNCHANGED <<args, fs, procs, status, devVars, scanVars>>

\* lines 243-246 and 248-257
Rebuild(r) == Spawn(r, "rebuild")
RebuildCheck(r) == Check(r, "rebuild", "zipalign", <<>>)

\* a bug: a failed alignment reports the aligned file, which was not written
ZipalignCheckAligned(r) == Check(r, "zipalign", "sign", <<aligned_apk(r)>>)

\* lines 260-263 and 265-273
Zipalign(r) == Spawn(r, "zipalign")
ZipalignCheck(r) == Check(r, "zipalign", "sign", <<rebuilt_apk(r)>>)

\* lines 276-289 and 291-299
Sign(r) == Spawn(r, "sign")
SignCheck(r) == Check(r, "sign", "cleanup", <<aligned_apk(r)>>)

\* a bug: the aligned file is not removed
CleanupKeepsAligned(r) ==
    /\ pc[r] = "cleanup"
    /\ fs' = fs \ {rebuilt_apk(r), work_dir(r)}
    /\ manifest' = [manifest EXCEPT ![work_dir(r)] = NoFile]
    /\ Goto(r, "install")
    /\ Event(r, "cleanup", "start")
    /\ Touch(r, {rebuilt_apk(r), work_dir(r)})
    /\ UNCHANGED <<args, procs, status, obs, devVars, scanVars>>

\* lines 301-303: the intermediates are removed, errors ignored
Cleanup(r) ==
    /\ pc[r] = "cleanup"
    /\ fs' = fs \ {rebuilt_apk(r), aligned_apk(r), work_dir(r)}
    /\ manifest' = [manifest EXCEPT ![work_dir(r)] = NoFile]
    /\ Goto(r, "install")
    /\ Event(r, "cleanup", "start")
    /\ Touch(r, {rebuilt_apk(r), aligned_apk(r), work_dir(r)})
    /\ UNCHANGED <<args, procs, status, obs, devVars, scanVars>>

\* line 306-307: install only when asked for and a device is given
WantsInstall(r) == args[r].install_after /\ args[r].device_id # <<>>

\* lines 306-311, 331-338 and 343-348: adb install is started (a launch failure
\* is returned as a result), or the run completes without installing
Install(r) ==
    /\ pc[r] = "install"
    /\ IF WantsInstall(r)
       THEN \E o \in Outcomes("install") :
               /\ Observe(r, "install", o)
               /\ IF o = "launch_err"
                  THEN /\ Return(r, FailResult("install", <<final_apk(r)>>, "install_launch"), fs)
                       /\ log' = [log EXCEPT ![r] =
                                     @ \o <<[stage |-> "install", ev |-> "start"],
                                            [stage |-> "install", ev |-> "launch_err"]>>]
                       /\ UNCHANGED procs
                  ELSE /\ Goto(r, "install_wait")
                       /\ Event(r, "install", "start")
                       /\ procs' = procs \cup {[run |-> r, stage |-> "install", outcome |-> o]}
       ELSE /\ Return(r, OkResult("complete", final_apk(r), "complete", new_package(r)), fs)
            /\ UNCHANGED <<obs, log, procs>>
    /\ UNCHANGED <<args, fs, manifest, status, shared, devVars, scanVars>>

\* a bug: the exit status alone decides, the "Success" marker is not looked for
InstallCheckExitOnly(r) ==
    /\ pc[r] = "install_wait"
    /\ OutputReturned(r)
    /\ IF status[r].success
       THEN Return(r, OkResult("install", final_apk(r), "installed", new_package(r)), fs)
       ELSE Return(r, FailResult("install", <<final_apk(r)>>, "install"), fs)
    /\ UNCHANGED <<args, fs, manifest, procs, status, obs, log, shared, devVars, scanVars>>

\* lines 312-329
InstallCheck(r) ==
    /\ pc[r] = "install_wait"
    /\ OutputReturned(r)
    /\ IF status[r].success /\ status[r].marker
       THEN Return(r, OkResult("install", final_apk(r), "installed", new_package(r)), fs)
       ELSE Return(r, FailResult("install", <<final_apk(r)>>, "install"), fs)
    /\ UNCHANGED <<args, fs, manifest, procs, status, obs, log, shared, devVars, scanVars>>

(***************************************************************************)
(* Specifications                                                          *)
(***************************************************************************)
new_prefix == <<"cn", ".", "chinapost">>
Device == "emu1"
CustomSuffix == <<"p", "r", "o">>

\* the parameters of one invocation: any source, suffix None, Some("") or
\* Some("pro"), a device or none, install asked for or not
ArgSet ==
    [apk_path : Apks, new_prefix : {new_prefix},
     custom_suffix : {<<>>, <<<<>>>>, <<CustomSuffix>>},
     device_id : {<<>>, <<Device>>}, install_after : BOOLEAN]

\* two invocations that run at the same time: no custom suffix; the first builds
\* only, the second may install on a device
ArgSetConc == {a \in ArgSet : a.custom_suffix = <<>> /\ (a.install_after <=> a.device_id # <<>>)}

PipeStart ==
    /\ pc = [r \in Runs |-> "start"]
    /\ fs = Apks
    /\ manifest = [d \in WorkDirs |-> NoFile]
    /\ procs = {}
    /\ status = [r \in Runs |-> [success |-> FALSE, marker |-> FALSE]]
    /\ result = [r \in Runs |-> NoResult]
    /\ obs = [r \in Runs |-> [k \in EnvKeys |-> Unset]]
    /\ log = [r \in Runs |-> <<>>]
    /\ shared = [r \in Runs |-> {}]
    /\ retFs = [r \in Runs |-> {}]

DevIdle == adb_stdout = <<>> /\ devices = NoValue
ScanIdle == pm_stdout = <<>> /\ trusted = NoValue
PipeIdle == PipeStart /\ args = [r \in Runs |-> CHOOSE a \in ArgSet : TRUE]

\* one invocation after the other works on the files of one directory, where the
\* rebuilt file of MyGame.apk is itself a source
ArgSetSeq == {a \in ArgSet : a.apk_path \in {ApkGameA, ApkRebuilt}}

Init == PipeStart /\ args \in [Runs -> ArgSetSeq] /\ DevIdle /\ ScanIdle
InitConc ==
    /\ PipeStart
    /\ args \in [Runs -> ArgSetConc]
    /\ ~args[1].install_after
    /\ DevIdle
    /\ ScanIdle
InitScan ==
    /\ PipeIdle
    /\ DevIdle
    /\ pm_stdout \in SeqsUpTo(PkgLinePool, MaxPkgLines)
    /\ trusted = NoValue
InitDevices ==
    /\ PipeIdle
    /\ ScanIdle
    /\ adb_stdout \in {<<>>} \cup {<<Header>> \o rest : rest \in SeqsUpTo(DevLinePool, MaxDevLines)}
    /\ devices = NoValue

\* one invocation after the other: the second is called when the first returned
Call(r) ==
    /\ \A q \in Runs : q < r => pc[q] = "done"
    /\ Begin(r)

\* what follows the first lines of an invocation
Proceed(r) ==
    \/ Decompile(r)
    \/ DecompileCheck(r)
    \/ PatchStep(r)
    \/ Rebuild(r)
    \/ RebuildCheck(r)
    \/ Zipalign(r)
    \/ ZipalignCheck(r)
    \/ Sign(r)
    \/ SignCheck(r)
    \/ Cleanup(r)
    \/ Install(r)
    \/ InstallCheck(r)

Next ==
    \/ \E r \in Runs : Call(r) \/ Proceed(r)
    \/ \E p \in procs : ToolExit(p)

\* the two invocations run as two tasks, under any interleaving
NextConc ==
    \/ \E r \in Runs : Begin(r) \/ Proceed(r)
    \/ \E p \in procs : ToolExit(p)

Spec == Init /\ [][Next]_vars
SpecConc == InitConc /\ [][NextConc]_vars
SpecScan == InitScan /\ [][ScanTrustedPrefixes]_vars
SpecDevices == InitDevices /\ [][GetDevices]_vars

(***************************************************************************)
(* Properties                                                              *)
(***************************************************************************)
StageOrder == <<"decompile", "patch", "rebuild", "zipalign", "sign", "cleanup", "install">>
BuildTools == {"decompile", "rebuild", "zipalign", "sign"}

IsStart(e) == e.ev = "start"
RECURSIVE StagesOf(_)
StagesOf(events) ==
    IF events = <<>> THEN <<>> ELSE <<Head(events).stage>> \o StagesOf(Tail(events))

\* the stages invocation r has started, in the order it started them
Started(r) == StagesOf(SelectSeq(log[r], IsStart))

IsPrefix(s, t) == Len(s) <= Len(t) /\ SubSeq(t, 1, Len(s)) = s

HasEvent(r, stage, ev) == \E i \in 1..Len(log[r]) : log[r][i] = [stage |-> stage, ev |-> ev]
LastEvent(r) == log[r][Len(log[r])]
Done(r) == pc[r] = "done"

\* a stage of r failed: its tool did not start, reported failure, or the
\* manifest could not be read or written
IsFailure(e) == e.ev \in {"launch_err", "exit_fail", "io_err"}

\* C1: the stages start in the order decompile, patch-manifest, rebuild, align,
\* sign, cleanup, install; an invocation has at most one external process
\* running, that of the stage it started last; and a failed stage is the last
\* thing the invocation does: nothing starts after it, and the invocation
\* returns.
StagesInOrder ==
    \A r \in Runs :
        /\ IsPrefix(Started(r), StageOrder)
        /\ Cardinality({p \in procs : p.run = r}) <= 1
        /\ \A p \in procs : p.run = r => /\ log[r] # <<>>
                                         /\ LastEvent(r) = [stage |-> p.stage, ev |-> "start"]
        /\ \A i \in 1..Len(log[r]) :
              IsFailure(log[r][i]) =>
                  /\ i = Len(log[r])
                  /\ pc[r] \in {"done", log[r][i].stage \o "_wait"}
        /\ Done(r) => \A p \in procs : p.run # r

\* C1 witness: an invocation whose signing tool failed after the stages before it
\* ran in order, and which returned
StagesInOrderWitness ==
    \E r \in Runs :
        /\ Done(r)
        /\ Started(r) = SubSeq(StageOrder, 1, 5)
        /\ LastEvent(r) = [stage |-> "sign", ev |-> "exit_fail"]

\* the path a failed build stage reports, lines 211, 254, 270, 296
ReportedPath(r, stage) ==
    CASE stage = "zipalign" -> <<RebuiltOf(args[r].apk_path)>>
      [] stage = "sign" -> <<AlignedOf(args[r].apk_path)>>
      [] OTHER -> <<>>

\* C2: when the tool of a build stage ran and reported non-success, the result is
\* Ok with success=false, its step names that stage, and its outputPath is none
\* for decompile and rebuild, the rebuilt file for zipalign, the aligned file for
\* sign.
FailureNamesStage ==
    \A r \in Runs :
        (Done(r) /\ log[r] # <<>> /\ LastEvent(r).ev = "exit_fail"
                 /\ LastEvent(r).stage \in BuildTools)
        => /\ result[r].kind = "Ok"
           /\ ~result[r].success
           /\ result[r].step = <<LastEvent(r).stage>>
           /\ result[r].output_path = ReportedPath(r, LastEvent(r).stage)

\* C2 witness: a run that returned after its alignment tool reported failure
FailureNamesStageWitness ==
    \E r \in Runs :
        /\ Done(r)
        /\ log[r] # <<>>
        /\ LastEvent(r) = [stage |-> "zipalign", ev |-> "exit_fail"]
        /\ result[r].output_path = <<RebuiltOf(args[r].apk_path)>>

\* what the build stages of r that succeeded wrote to disk
Produced(r) == UNION {ToolOutput(r, st) : st \in {t \in BuildTools : HasEvent(r, t, "exit_ok")}}

Intermediates(r) ==
    {WorkDirOf(args[r].apk_path), RebuiltOf(args[r].apk_path), AlignedOf(args[r].apk_path)}

FullySuccessful(r) == result[r].kind = "Ok" /\ result[r].success

InstallFailed(r) ==
    \/ HasEvent(r, "install", "launch_err")
    \/ HasEvent(r, "install", "exit_fail")
    \/ HasEvent(r, "install", "exit_ok") /\ ~status[r].marker

\* C4: when the build succeeded and install is asked for on a device, an install
\* command that cannot be launched, exits without success or prints no "Success"
\* gives success=false, step "install", outputPath the final signed file, and
\* that file is on disk when the result is returned.
InstallFailureKeepsApk ==
    \A r \in Runs :
        (Done(r) /\ args[r].install_after /\ args[r].device_id # <<>>
                 /\ HasEvent(r, "sign", "exit_ok") /\ InstallFailed(r))
        => /\ result[r].kind = "Ok"
           /\ ~result[r].success
           /\ result[r].step = <<"install">>
           /\ result[r].output_path = <<FinalOf(args[r].apk_path)>>
           /\ FinalOf(args[r].apk_path) \in retFs[r]

\* C4 witness: adb install exited with success and printed no "Success"
InstallFailureKeepsApkWitness ==
    \E r \in Runs :
        /\ Done(r)
        /\ HasEvent(r, "install", "exit_ok")
        /\ ~status[r].marker
        /\ result[r].step = <<"install">>

LaunchOrIoFailure(r) ==
    \E i \in 1..Len(log[r]) : log[r][i].ev \in {"launch_err", "io_err", "no_pattern"}

ToolReportedFailure(r) ==
    \/ \E i \in 1..Len(log[r]) : log[r][i].ev = "exit_fail"
    \/ HasEvent(r, "install", "exit_ok") /\ ~status[r].marker

\* C5 as stated: every launch or I/O failure (a tool that cannot be started, a
\* manifest that cannot be read or written, a manifest without the package
\* pattern) ends the operation as Err, and every tool-reported failure as Ok
\* with success=false.
TwoErrorTiers ==
    \A r \in Runs :
        Done(r) =>
            /\ LaunchOrIoFailure(r) => result[r].kind = "Err"
            /\ ToolReportedFailure(r) => result[r].kind = "Ok" /\ ~result[r].success

BuildLaunchOrIoFailure(r) ==
    \E i \in 1..Len(log[r]) :
        \/ log[r][i].ev = "io_err"
        \/ log[r][i].ev = "launch_err" /\ log[r][i].stage \in BuildTools

\* C5 as amended: in process_apk_full a build tool that cannot be started and a
\* manifest that cannot be read or written end the operation as Err, and nothing
\* else does; a tool-reported failure, and also an install command that cannot
\* be started, is returned as Ok with success=false, and nothing else is; a
\* manifest without the package pattern is no failure.
ErrorTiers ==
    \A r \in Runs :
        Done(r) =>
            /\ result[r].kind = "Err" <=> BuildLaunchOrIoFailure(r)
            /\ (result[r].kind = "Ok" /\ ~result[r].success)
                  <=> (ToolReportedFailure(r) \/ HasEvent(r, "install", "launch_err"))
            /\ HasEvent(r, "install", "launch_err") => result[r].step = <<"install">>

\* C5 witness: the manifest had no package pattern, the build went on, and the
\* install command could not be started: the run returned Ok with success=false
ErrorTiersWitness ==
    \E r \in Runs :
        /\ Done(r)
        /\ HasEvent(r, "patch", "no_pattern")
        /\ HasEvent(r, "install", "launch_err")
        /\ result[r].kind = "Ok"
        /\ ~result[r].success

\* C6: two runs at the same time on different source files: neither touches
\* (reads, writes, removes) the working directory or the rebuilt, aligned or
\* final file of the other.
NoCollision ==
    args[1].apk_path # args[2].apk_path =>
        \A r \in Runs : shared[r] \cap Artifacts(Other(r)) = {}

\* the tools and the disk behaved the same for both runs, as far as both saw them
SameToolBehaviour ==
    \A k \in EnvKeys : obs[1][k] = Unset \/ obs[2][k] = Unset \/ obs[1][k] = obs[2][k]

Listed == {i \in 1..Len(pm_stdout) : StartsWith(pm_stdout[i], <<"package:">>)}
Segments(i) == SplitOn(StripPrefix(pm_stdout[i], <<"package:">>), ".")
TwoSegmentPrefix(i) == Segments(i)[1] \o <<".">> \o Segments(i)[2]

\* the number of listed packages of two or more segments with this prefix
Occurrences(prefix) ==
    Cardinality({i \in Listed : Len(Segments(i)) >= 2 /\ TwoSegmentPrefix(i) = prefix})

AllPrefixes == {TwoSegmentPrefix(i) : i \in {j \in Listed : Len(Segments(j)) >= 2}}

OnDenylist(prefix) == \E sys \in system_prefixes : StartsWith(prefix, sys)

\* C8: the result is the two curated entries at positions 0 and 1, then the
\* scan-derived entries in descending count order; a prefix is scan-derived,
\* once, with its count, exactly when it occurs 2 or more times and does not
\* match the denylist (a denylist entry is a prefix of it).
CuratedThenScanned ==
    trusted.kind = "Ok" =>
        LET v == trusted.value
        IN  /\ Len(v) >= 2
            /\ v[1] = [prefix |-> <<"cn", ".", "chinapost">>, count |-> 999,
                       source |-> "recommended"]
            /\ v[2] = [prefix |-> <<"com", ".", "nlscan">>, count |-> 100,
                       source |-> "recommended"]
            /\ \A i \in 3..Len(v) :
                  /\ v[i].source = "device_scan"
                  /\ v[i].count = Occurrences(v[i].prefix)
                  /\ v[i].count >= 2
                  /\ ~OnDenylist(v[i].prefix)
            /\ \A i, j \in 3..Len(v) :
                  /\ i < j => v[i].count >= v[j].count
                  /\ i # j => v[i].prefix # v[j].prefix
            /\ \A p \in AllPrefixes :
                  (Occurrences(p) >= 2 /\ ~OnDenylist(p))
                      => \E i \in 3..Len(v) : v[i].prefix = p

\* C8 witness: a listing with a prefix seen three times, one seen twice, and the
\* result ranks them in that order after the curated entries
CuratedThenScannedWitness ==
    /\ trusted.kind = "Ok"
    /\ Len(trusted.value) = 4
    /\ trusted.value[3].count = 3
    /\ trusted.value[4].count = 2

\* the second whitespace-delimited token of a listing line: its status
StatusIsDevice(line) ==
    LET parts == SplitWhitespace(line)
    IN  Len(parts) >= 2 /\ parts[2] = <<"device">>

RECURSIVE IdsByStatus(_)
IdsByStatus(lines) ==
    IF lines = <<>> THEN <<>>
    ELSE (IF StatusIsDevice(Head(lines)) THEN <<SplitWhitespace(Head(lines))[1]>> ELSE <<>>)
         \o IdsByStatus(Tail(lines))

\* C9: get_devices drops the header line and every line whose status token is
\* not "device" (blank, offline, unauthorized), and returns the first token of
\* each line it keeps, in input order.
DevicesByStatus ==
    devices.kind = "Ok" =>
        devices.value = (IF adb_stdout = <<>> THEN <<>> ELSE IdsByStatus(Tail(adb_stdout)))

\* C10: a run with install_after=true that returns success=true has started the
\* install command, and the command exited with success and printed "Success".
SuccessMeansInstalled ==
    \A r \in Runs :
        (Done(r) /\ args[r].install_after /\ result[r].kind = "Ok" /\ result[r].success)
        => /\ HasEvent(r, "install", "exit_ok")
           /\ status[r].marker
           /\ result[r].step # <<"complete">>

====
